---- MODULE Spec2Model ----
(***************************************************************************)
(* Chunk assignment of the bundler: getChunkAssignments and the functions  *)
(* it calls (manual chunks, module graph analysis, entry assignment with   *)
(* already-loaded elision, signature grouping, size-driven merging).       *)
(*                                                                         *)
(* JavaScript Sets and Maps iterate in insertion order and the code relies *)
(* on it, so every Set/Map whose order the code can observe is a sequence  *)
(* without duplicates; SetAdd/SetDelete are Set.prototype.add/delete.      *)
(***************************************************************************)
EXTENDS Integers, Sequences, FiniteSets, TLC

\* ------------------------------------------------------------------ bounds
\* Internal modules are 1..NumModules; 0 is the one ExternalModule.
NumModules == 3
MaxStaticEdges == 3
MaxDynamicEdges == 2
MaxManualEntries == 2
MaxEntries == 2
MaxShakenEdges == 1
MaxManualDynamicEdges == 0
MaxMergeDynamicEdges == 0
MaxMinChunkSize == 3
MaxChunks == 3
SignatureLength == 3
MaxModuleSize == 2
\* Entries in a direct call of areEntriesContainedOrDynamicallyDependent.
MaxCheckedEntries == 4

Modules == 1..NumModules
ExternalModule == 0

\* ------------------------------------------------- ordered Sets (insertion)
Range(s) == {s[i] : i \in DOMAIN s}

Has(s, x) == \E i \in DOMAIN s : s[i] = x

SetAdd(s, x) == IF Has(s, x) THEN s ELSE Append(s, x)

RECURSIVE SetAddAll(_, _)
SetAddAll(s, xs) ==
  IF xs = <<>> THEN s ELSE SetAddAll(SetAdd(s, Head(xs)), Tail(xs))

SetDelete(s, x) == SelectSeq(s, LAMBDA y : y # x)

IndexOf(s, x) == CHOOSE i \in DOMAIN s : s[i] = x

\* The ascending sequence of a finite set of integers.
RECURSIVE SortedSeq(_)
SortedSeq(S) ==
  IF S = {} THEN <<>>
  ELSE LET m == CHOOSE x \in S : \A y \in S : x <= y
       IN  <<m>> \o SortedSeq(S \ {m})

RECURSIVE Flatten(_)
Flatten(ss) == IF ss = <<>> THEN <<>> ELSE Head(ss) \o Flatten(Tail(ss))

\* --------------------------------------------------------------- variables
VARIABLES
  entries,                  \* parameter: the user entries, in order
  manualChunkAliasByEntry,  \* parameter: Map entry -> alias, as <<entry, alias>> pairs
  minChunkSize,             \* parameter
  modules,                  \* the module graph: Module fields by module
  pc,                       \* position in getChunkAssignments
  chunkDefinitions,         \* the result being built
  modulesInManualChunks,
  manualChunkModulesByAlias,\* object alias -> modules, keys in creation order
  manualIdx,                \* entries of manualChunkAliasByEntry already handled
  allEntries,
  dynamicEntries,
  dependentEntriesByModule,
  dynamicallyDependentEntriesByDynamicEntry,
  entryIdx,                 \* elements of allEntries the running loop has visited
  assignedEntriesByModule,  \* Map module -> Set, as records in insertion order
  chunkModulesBySignature,  \* object signature -> modules, keys in creation order
  chunkPartition,
  mergeIdx,                 \* live elements of chunksToBeMerged before the iterator
  merges,                   \* history: number of merges performed
  loopSteps,                \* history: iterations of the last live-Set traversal
  call                      \* a direct call of one function: arguments and result

vars == <<entries, manualChunkAliasByEntry, minChunkSize, modules, pc,
          chunkDefinitions, modulesInManualChunks, manualChunkModulesByAlias,
          manualIdx, allEntries, dynamicEntries, dependentEntriesByModule,
          dynamicallyDependentEntriesByDynamicEntry, entryIdx,
          assignedEntriesByModule, chunkModulesBySignature, chunkPartition,
          mergeIdx, merges, loopSteps, call>>

\* What no step of getChunkAssignments writes.
inputVars == <<entries, manualChunkAliasByEntry, minChunkSize, modules, call>>

\* getChunkAssignments is running: no function is called on its own.
NoCall == [op |-> "getChunkAssignments"]

\* ------------------------------------------------------------ Module fields
IsModule(x) == x \in Modules

dependencies(m) == modules[m].dependencies

getDependenciesToBeIncluded(m) == modules[m].includedDependencies

dynamicImports(m) == modules[m].dynamicImports

implicitlyLoadedBefore(m) == modules[m].implicitlyLoadedBefore

hasEffects(m) == modules[m].hasEffects

ModuleSize(m) == modules[m].size

\* Modules that dynamically import d through an included import expression.
includedDynamicImporters(d) ==
  SortedSeq({m \in Modules : d \in modules[m].includedDynamicImports})

\* The inverse of implicitlyLoadedBefore.
implicitlyLoadedAfter(d) ==
  SortedSeq({m \in Modules : Has(modules[m].implicitlyLoadedBefore, d)})

\* --------------------------------------------------------- manual chunks
\* The for-of loop over the live Set modulesToHandle; idx elements are done.
\* A loop that has run NumModules times and is not drained stops and reports
\* the overrun (idx > NumModules in the result).
RECURSIVE ManualTraversal(_, _, _, _)
ManualTraversal(modulesToHandle, idx, manualChunkModules, inManual) ==
  IF idx >= Len(modulesToHandle)
  THEN [modules |-> manualChunkModules, inManual |-> inManual, steps |-> idx]
  ELSE IF idx >= NumModules
  THEN [modules |-> manualChunkModules, inManual |-> inManual, steps |-> idx + 1]
  ELSE LET module == modulesToHandle[idx + 1]
           inManual2 == inManual \cup {module}
           toAdd == SelectSeq(dependencies(module),
                      LAMBDA d : ~(d = ExternalModule \/ d \in inManual2))
       IN  ManualTraversal(SetAddAll(modulesToHandle, toAdd), idx + 1,
                           Append(manualChunkModules, module), inManual2)

\* Seeded fault: the traversal ignores what the manual chunks already hold.
addStaticDependenciesToManualChunk_NoGuard(entry, manualChunkModules, inManual) ==
  LET r == ManualTraversal(<<entry>>, 0, manualChunkModules, {})
  IN  [modules |-> r.modules, inManual |-> inManual \cup r.inManual,
       steps |-> r.steps]

addStaticDependenciesToManualChunk(entry, manualChunkModules, inManual) ==
  ManualTraversal(<<entry>>, 0, manualChunkModules, inManual)

AliasIndex(byAlias, alias) ==
  IF \E i \in DOMAIN byAlias : byAlias[i].alias = alias
  THEN CHOOSE i \in DOMAIN byAlias : byAlias[i].alias = alias
  ELSE 0

\* Property keys that are canonical array indices, with their numeric value.
ArrayIndexOf == [a \in {"1", "2"} |-> IF a = "1" THEN 1 ELSE 2]

IsArrayIndex(alias) == alias \in DOMAIN ArrayIndexOf

\* Object.entries: array-index keys ascending, then the others in creation order.
RECURSIVE SortByArrayIndex(_)
SortByArrayIndex(es) ==
  IF es = <<>> THEN <<>>
  ELSE LET i == CHOOSE i \in DOMAIN es :
                  \A j \in DOMAIN es :
                     ArrayIndexOf[es[i].alias] <= ArrayIndexOf[es[j].alias]
       IN  <<es[i]>> \o SortByArrayIndex(SelectSeq(es, LAMBDA e : e # es[i]))

ObjectEntries(byAlias) ==
  SortByArrayIndex(SelectSeq(byAlias, LAMBDA e : IsArrayIndex(e.alias)))
    \o SelectSeq(byAlias, LAMBDA e : ~IsArrayIndex(e.alias))

\* ------------------------------------------------------ analyzeModuleGraph
\* for (const { resolution } of module.dynamicImports): st is
\* [allEntries, dynamicEntries].
\* Seeded fault: includedDynamicImporters is not looked at.
RECURSIVE AddDynamicImports_AnyImporter(_, _)
AddDynamicImports_AnyImporter(resolutions, st) ==
  IF resolutions = <<>> THEN st
  ELSE LET resolution == Head(resolutions)
       IN  AddDynamicImports_AnyImporter(Tail(resolutions),
             IF IsModule(resolution) /\ ~Has(st.allEntries, resolution)
             THEN [allEntries |-> Append(st.allEntries, resolution),
                   dynamicEntries |-> SetAdd(st.dynamicEntries, resolution)]
             ELSE st)

RECURSIVE AddDynamicImports(_, _)
AddDynamicImports(resolutions, st) ==
  IF resolutions = <<>> THEN st
  ELSE LET resolution == Head(resolutions)
       IN  AddDynamicImports(Tail(resolutions),
             IF /\ IsModule(resolution)
                /\ Len(includedDynamicImporters(resolution)) > 0
                /\ ~Has(st.allEntries, resolution)
             THEN [allEntries |-> Append(st.allEntries, resolution),
                   dynamicEntries |-> SetAdd(st.dynamicEntries, resolution)]
             ELSE st)

\* Seeded fault: a dependency already in allEntries still becomes a dynamic
\* entry.
RECURSIVE AddImplicitlyLoaded_KnownEntriesToo(_, _)
AddImplicitlyLoaded_KnownEntriesToo(deps, st) ==
  IF deps = <<>> THEN st
  ELSE LET dependency == Head(deps)
       IN  AddImplicitlyLoaded_KnownEntriesToo(Tail(deps),
             [allEntries |-> SetAdd(st.allEntries, dependency),
              dynamicEntries |-> SetAdd(st.dynamicEntries, dependency)])

\* for (const dependency of module.implicitlyLoadedBefore)
RECURSIVE AddImplicitlyLoaded(_, _)
AddImplicitlyLoaded(deps, st) ==
  IF deps = <<>> THEN st
  ELSE LET dependency == Head(deps)
       IN  AddImplicitlyLoaded(Tail(deps),
             IF ~Has(st.allEntries, dependency)
             THEN [allEntries |-> Append(st.allEntries, dependency),
                   dynamicEntries |-> SetAdd(st.dynamicEntries, dependency)]
             ELSE st)

\* The inner loop of analyzeModuleGraph for one currentEntry; st is
\* [allEntries, dynamicEntries, dependentEntriesByModule].
RECURSIVE AnalyzeTraversal(_, _, _, _)
AnalyzeTraversal(currentEntry, modulesToHandle, idx, st) ==
  IF idx >= Len(modulesToHandle)
  THEN [allEntries |-> st.allEntries, dynamicEntries |-> st.dynamicEntries,
        dependentEntriesByModule |-> st.dependentEntriesByModule, steps |-> idx]
  ELSE IF idx >= NumModules
  THEN [allEntries |-> st.allEntries, dynamicEntries |-> st.dynamicEntries,
        dependentEntriesByModule |-> st.dependentEntriesByModule,
        steps |-> idx + 1]
  ELSE LET module == modulesToHandle[idx + 1]
           dependent == [st.dependentEntriesByModule EXCEPT
                           ![module] = SetAdd(@, currentEntry)]
           toAdd == SelectSeq(getDependenciesToBeIncluded(module),
                              LAMBDA d : d # ExternalModule)
           e0 == [allEntries |-> st.allEntries,
                  dynamicEntries |-> st.dynamicEntries]
           e1 == AddDynamicImports(dynamicImports(module), e0)
           e2 == AddImplicitlyLoaded(implicitlyLoadedBefore(module), e1)
       IN  AnalyzeTraversal(currentEntry, SetAddAll(modulesToHandle, toAdd),
             idx + 1,
             [allEntries |-> e2.allEntries,
              dynamicEntries |-> e2.dynamicEntries,
              dependentEntriesByModule |-> dependent])

\* for (const entry of dependentEntriesByModule.get(importer)) over the
\* importers in order.
RECURSIVE DependentEntriesOfImporters(_, _, _)
DependentEntriesOfImporters(importers, dependent, acc) ==
  IF importers = <<>> THEN acc
  ELSE DependentEntriesOfImporters(Tail(importers), dependent,
         SetAddAll(acc, dependent[Head(importers)]))

getDynamicallyDependentEntriesByDynamicEntry(dependent, dynEntries) ==
  [d \in Range(dynEntries) |->
     DependentEntriesOfImporters(
       includedDynamicImporters(d) \o implicitlyLoadedAfter(d), dependent, <<>>)]

\* -------------------------------------------- assignEntryToStaticDependencies
MAX_ENTRIES_TO_CHECK_FOR_SHARED_DEPENDENCIES == 3

\* The loop over the live Set entriesToCheck.
RECURSIVE ContainedLoop(_, _, _, _, _)
ContainedLoop(entriesToCheck, idx, containedIn, staticEntries, dynDependent) ==
  IF idx >= Len(entriesToCheck) THEN TRUE
  ELSE LET entry == entriesToCheck[idx + 1]
       IN  IF Has(containedIn, entry)
           THEN ContainedLoop(entriesToCheck, idx + 1, containedIn,
                              staticEntries, dynDependent)
           ELSE IF entry \in staticEntries THEN FALSE
           ELSE IF Len(dynDependent[entry]) >
                     MAX_ENTRIES_TO_CHECK_FOR_SHARED_DEPENDENCIES
           THEN FALSE
           ELSE ContainedLoop(SetAddAll(entriesToCheck, dynDependent[entry]),
                              idx + 1, containedIn, staticEntries, dynDependent)

\* Seeded fault: one contained entry is enough.
areEntriesContainedOrDynamicallyDependent_Any(entrySet, containedIn, staticEntries, dynDependent) ==
  \E i \in DOMAIN entrySet : Has(containedIn, entrySet[i])

\* Seeded fault: no limit on the number of entries.
areEntriesContainedOrDynamicallyDependent_NoCap(entrySet, containedIn, staticEntries, dynDependent) ==
  ContainedLoop(entrySet, 0, containedIn, staticEntries, dynDependent)

areEntriesContainedOrDynamicallyDependent(entrySet, containedIn, staticEntries, dynDependent) ==
  IF Len(entrySet) > MAX_ENTRIES_TO_CHECK_FOR_SHARED_DEPENDENCIES THEN FALSE
  ELSE ContainedLoop(entrySet, 0, containedIn, staticEntries, dynDependent)

\* Map.get / getOrCreate on the insertion-ordered Map assignedEntriesByModule.
AssignedIndex(assigned, module) ==
  IF \E i \in DOMAIN assigned : assigned[i].module = module
  THEN CHOOSE i \in DOMAIN assigned : assigned[i].module = module
  ELSE 0

GetOrCreateAssigned(assigned, module) ==
  IF AssignedIndex(assigned, module) = 0
  THEN Append(assigned, [module |-> module, entries |-> <<>>])
  ELSE assigned

\* Seeded fault: no continue; a skipped module's dependencies are added.
RECURSIVE AssignTraversal_NoContinue(_, _, _, _, _)
AssignTraversal_NoContinue(entry, modulesToHandle, idx, assigned, env) ==
  IF idx >= Len(modulesToHandle)
  THEN [assigned |-> assigned, steps |-> idx, handled |-> modulesToHandle]
  ELSE IF idx >= NumModules
  THEN [assigned |-> assigned, steps |-> idx + 1, handled |-> modulesToHandle]
  ELSE LET module == modulesToHandle[idx + 1]
           created == GetOrCreateAssigned(assigned, module)
           i == AssignedIndex(created, module)
           toAdd == SelectSeq(getDependenciesToBeIncluded(module),
                      LAMBDA d : ~(d = ExternalModule \/ d \in env.inManual))
       IN  IF /\ entry \in DOMAIN env.dynDependent
              /\ areEntriesContainedOrDynamicallyDependent(
                   env.dynDependent[entry], env.dependent[module],
                   env.staticEntries, env.dynDependent)
           THEN AssignTraversal_NoContinue(entry,
                  SetAddAll(modulesToHandle, toAdd), idx + 1, created, env)
           ELSE AssignTraversal_NoContinue(entry,
                  SetAddAll(modulesToHandle, toAdd), idx + 1,
                  [created EXCEPT ![i].entries = SetAdd(@, entry)], env)

RECURSIVE AssignTraversal(_, _, _, _, _)
AssignTraversal(entry, modulesToHandle, idx, assigned, env) ==
  IF idx >= Len(modulesToHandle)
  THEN [assigned |-> assigned, steps |-> idx, handled |-> modulesToHandle]
  ELSE IF idx >= NumModules
  THEN [assigned |-> assigned, steps |-> idx + 1, handled |-> modulesToHandle]
  ELSE LET module == modulesToHandle[idx + 1]
           created == GetOrCreateAssigned(assigned, module)
           i == AssignedIndex(created, module)
       IN  IF /\ entry \in DOMAIN env.dynDependent
              /\ areEntriesContainedOrDynamicallyDependent(
                   env.dynDependent[entry], env.dependent[module],
                   env.staticEntries, env.dynDependent)
           THEN AssignTraversal(entry, modulesToHandle, idx + 1, created, env)
           ELSE LET toAdd == SelectSeq(getDependenciesToBeIncluded(module),
                               LAMBDA d : ~(d = ExternalModule
                                            \/ d \in env.inManual))
                IN  AssignTraversal(entry, SetAddAll(modulesToHandle, toAdd),
                      idx + 1,
                      [created EXCEPT ![i].entries = SetAdd(@, entry)], env)

assignEntryToStaticDependencies(entry, assigned, env) ==
  AssignTraversal(entry, <<entry>>, 0, assigned, env)

\* ------------------------------------------------------------- createChunks
CHAR_DEPENDENT == "X"
CHAR_INDEPENDENT == "_"

\* The string built by scanning allEntries, as a sequence of characters.
\* Seeded fault: the scan stops before the last entry.
ChunkSignature_IgnoresLastEntry(assignedEntries, all) ==
  [i \in 1..Len(all) |->
     IF i < Len(all) /\ Has(assignedEntries, all[i])
     THEN CHAR_DEPENDENT ELSE CHAR_INDEPENDENT]

ChunkSignature(assignedEntries, all) ==
  [i \in 1..Len(all) |->
     IF Has(assignedEntries, all[i]) THEN CHAR_DEPENDENT ELSE CHAR_INDEPENDENT]

SignatureIndex(chunkModules, signature) ==
  IF \E i \in DOMAIN chunkModules : chunkModules[i].signature = signature
  THEN CHOOSE i \in DOMAIN chunkModules : chunkModules[i].signature = signature
  ELSE 0

RECURSIVE GroupBySignature(_, _, _)
GroupBySignature(assigned, all, chunkModules) ==
  IF assigned = <<>> THEN chunkModules
  ELSE LET module == Head(assigned).module
           chunkSignature == ChunkSignature(Head(assigned).entries, all)
           i == SignatureIndex(chunkModules, chunkSignature)
       IN  GroupBySignature(Tail(assigned), all,
             IF i # 0
             THEN [chunkModules EXCEPT ![i].modules = Append(@, module)]
             ELSE Append(chunkModules,
                    [signature |-> chunkSignature, modules |-> <<module>>]))

getChunkModulesBySignature(assigned, all) ==
  GroupBySignature(assigned, all, <<>>)

\* alias: null is the empty string; the aliases of manual chunks are not empty.
NoAlias == ""

AutomaticChunks(descriptions) ==
  [i \in 1..Len(descriptions) |->
     [alias |-> NoAlias, modules |-> descriptions[i].modules]]

\* ------------------------------------------------------ getPartitionedChunks
RECURSIVE SumSizes(_)
SumSizes(ms) == IF ms = <<>> THEN 0 ELSE ModuleSize(Head(ms)) + SumSizes(Tail(ms))

\* Seeded fault: every chunk counts as pure.
ChunkDescription_AlwaysPure(signature, ms) ==
  [modules |-> ms, pure |-> TRUE, signature |-> signature, size |-> SumSizes(ms)]

ChunkDescription(signature, ms) ==
  [modules |-> ms,
   pure |-> \A i \in DOMAIN ms : ~hasEffects(ms[i]),
   signature |-> signature,
   size |-> SumSizes(ms)]

compareChunks(a, b) == a.size - b.size

\* Array.prototype.sort with compareChunks: stable, ascending.
RECURSIVE InsertSorted(_, _)
InsertSorted(sorted, c) ==
  IF sorted = <<>> THEN <<c>>
  ELSE IF compareChunks(c, Head(sorted)) < 0 THEN <<c>> \o sorted
  ELSE <<Head(sorted)>> \o InsertSorted(Tail(sorted), c)

RECURSIVE SortChunks(_, _)
SortChunks(chunks, sorted) ==
  IF chunks = <<>> THEN sorted
  ELSE SortChunks(Tail(chunks), InsertSorted(sorted, Head(chunks)))

getPartitionedChunks(chunkModules, minSize) ==
  LET all == [i \in 1..Len(chunkModules) |->
                ChunkDescription(chunkModules[i].signature, chunkModules[i].modules)]
      bucket(small, pure) ==
        SortChunks(SelectSeq(all,
          LAMBDA c : ((c.size < minSize) = small) /\ (c.pure = pure)), <<>>)
  IN  [big |-> [pure |-> bucket(FALSE, TRUE), sideEffect |-> bucket(FALSE, FALSE)],
       small |-> [pure |-> bucket(TRUE, TRUE), sideEffect |-> bucket(TRUE, FALSE)]]

\* ------------------------------------------------------------- mergeChunks
Infinity == [finite |-> FALSE, value |-> 0]

Finite(n) == [finite |-> TRUE, value |-> n]

LessThan(a, b) == a.finite /\ (~b.finite \/ a.value < b.value)

\* Seeded fault: the subset test looks at the target's character.
RECURSIVE SignatureDistanceFrom_TargetDependent(_, _, _, _, _)
SignatureDistanceFrom_TargetDependent(sourceSignature, targetSignature, enforceSubset, index, distance) ==
  IF index > Len(sourceSignature) THEN Finite(distance)
  ELSE IF sourceSignature[index] # targetSignature[index]
  THEN IF enforceSubset /\ targetSignature[index] = CHAR_DEPENDENT
       THEN Infinity
       ELSE SignatureDistanceFrom_TargetDependent(sourceSignature,
              targetSignature, enforceSubset, index + 1, distance + 1)
  ELSE SignatureDistanceFrom_TargetDependent(sourceSignature, targetSignature,
         enforceSubset, index + 1, distance)

RECURSIVE SignatureDistanceFrom(_, _, _, _, _)
SignatureDistanceFrom(sourceSignature, targetSignature, enforceSubset, index, distance) ==
  IF index > Len(sourceSignature) THEN Finite(distance)
  ELSE IF sourceSignature[index] # targetSignature[index]
  THEN IF enforceSubset /\ sourceSignature[index] = CHAR_DEPENDENT
       THEN Infinity
       ELSE SignatureDistanceFrom(sourceSignature, targetSignature,
                                  enforceSubset, index + 1, distance + 1)
  ELSE SignatureDistanceFrom(sourceSignature, targetSignature, enforceSubset,
                             index + 1, distance)

\* Seeded fault: enforceSubset is ignored.
getSignatureDistance_NoSubset(sourceSignature, targetSignature, enforceSubset) ==
  SignatureDistanceFrom(sourceSignature, targetSignature, FALSE, 1, 0)

getSignatureDistance(sourceSignature, targetSignature, enforceSubset) ==
  SignatureDistanceFrom(sourceSignature, targetSignature, enforceSubset, 1, 0)

\* Seeded fault: && in place of ||.
mergeSignatures_And(sourceSignature, targetSignature) ==
  [index \in 1..Len(sourceSignature) |->
     IF /\ sourceSignature[index] = CHAR_DEPENDENT
        /\ targetSignature[index] = CHAR_DEPENDENT
     THEN CHAR_DEPENDENT ELSE CHAR_INDEPENDENT]

mergeSignatures(sourceSignature, targetSignature) ==
  [index \in 1..Len(sourceSignature) |->
     IF \/ sourceSignature[index] = CHAR_DEPENDENT
        \/ targetSignature[index] = CHAR_DEPENDENT
     THEN CHAR_DEPENDENT ELSE CHAR_INDEPENDENT]

\* Seeded fault: <= in place of <, a chunk of exactly minSize counts as small.
getChunksInPartition_AtMost(chunk, minSize) ==
  <<IF chunk.size <= minSize THEN "small" ELSE "big",
    IF chunk.pure THEN "pure" ELSE "sideEffect">>

getChunksInPartition(chunk, minSize) ==
  <<IF chunk.size < minSize THEN "small" ELSE "big",
    IF chunk.pure THEN "pure" ELSE "sideEffect">>

\* Seeded fault: a chunk with side effects may go into any pure chunk.
MergeDistance_NoSubset(mergedChunk, targetChunk) ==
  IF mergedChunk.pure
  THEN getSignatureDistance(mergedChunk.signature, targetChunk.signature,
                            ~targetChunk.pure)
  ELSE getSignatureDistance(targetChunk.signature, mergedChunk.signature, FALSE)

\* Seeded fault: source and target signature are swapped for a chunk with
\* side effects.
MergeDistance_SwappedSubset(mergedChunk, targetChunk) ==
  IF mergedChunk.pure
  THEN getSignatureDistance(mergedChunk.signature, targetChunk.signature,
                            ~targetChunk.pure)
  ELSE getSignatureDistance(mergedChunk.signature, targetChunk.signature, TRUE)

MergeDistance(mergedChunk, targetChunk) ==
  IF mergedChunk.pure
  THEN getSignatureDistance(mergedChunk.signature, targetChunk.signature,
                            ~targetChunk.pure)
  ELSE getSignatureDistance(targetChunk.signature, mergedChunk.signature, TRUE)

\* Seeded fault: <= in place of < when a closer chunk is looked for.
RECURSIVE FindClosestChunk_LastWins(_, _, _, _)
FindClosestChunk_LastWins(mergedChunk, targets, closest, closestChunkDistance) ==
  IF targets = <<>> THEN closest
  ELSE LET targetChunk == Head(targets)
       IN  IF mergedChunk = targetChunk
           THEN FindClosestChunk_LastWins(mergedChunk, Tail(targets), closest,
                                          closestChunkDistance)
           ELSE LET distance == MergeDistance(mergedChunk, targetChunk)
                IN  IF distance = Finite(1) THEN <<targetChunk>>
                    ELSE IF ~LessThan(closestChunkDistance, distance)
                    THEN FindClosestChunk_LastWins(mergedChunk, Tail(targets),
                                                   <<targetChunk>>, distance)
                    ELSE FindClosestChunk_LastWins(mergedChunk, Tail(targets),
                                                   closest, closestChunkDistance)

\* The scan of concatLazy(targetChunks); closest is <<>> for null, else
\* <<chunk>>.
RECURSIVE FindClosestChunk(_, _, _, _)
FindClosestChunk(mergedChunk, targets, closest, closestChunkDistance) ==
  IF targets = <<>> THEN closest
  ELSE LET targetChunk == Head(targets)
       IN  IF mergedChunk = targetChunk
           THEN FindClosestChunk(mergedChunk, Tail(targets), closest,
                                 closestChunkDistance)
           ELSE LET distance == MergeDistance(mergedChunk, targetChunk)
                IN  IF distance = Finite(1) THEN <<targetChunk>>
                    ELSE IF LessThan(distance, closestChunkDistance)
                    THEN FindClosestChunk(mergedChunk, Tail(targets),
                                          <<targetChunk>>, distance)
                    ELSE FindClosestChunk(mergedChunk, Tail(targets), closest,
                                          closestChunkDistance)

TargetChunks(partition, targetKeys) ==
  Flatten([i \in 1..Len(targetKeys) |->
             partition[targetKeys[i][1]][targetKeys[i][2]]])

ClosestChunk(partition, mergedChunk, targetKeys) ==
  FindClosestChunk(mergedChunk, TargetChunks(partition, targetKeys), <<>>,
                   Infinity)

\* Seeded fault: the modules of the merged chunk are not pushed.
MergedInto_DropsSource(closestChunk, mergedChunk) ==
  [modules |-> closestChunk.modules,
   size |-> closestChunk.size + mergedChunk.size,
   pure |-> closestChunk.pure /\ mergedChunk.pure,
   signature |-> mergeSignatures(mergedChunk.signature, closestChunk.signature)]

MergedInto(closestChunk, mergedChunk) ==
  [modules |-> closestChunk.modules \o mergedChunk.modules,
   size |-> closestChunk.size + mergedChunk.size,
   pure |-> closestChunk.pure /\ mergedChunk.pure,
   signature |-> mergeSignatures(mergedChunk.signature, closestChunk.signature)]

PartitionKeys == {<<"small", "pure">>, <<"small", "sideEffect">>,
                  <<"big", "pure">>, <<"big", "sideEffect">>}

\* Seeded fault: the merged chunk is not deleted from chunksToBeMerged.
MergeIntoPartition_KeepsSource(partition, sourceKey, mergedChunk, closestChunk, minSize) ==
  LET oldKey == getChunksInPartition(closestChunk, minSize)
      merged == MergedInto(closestChunk, mergedChunk)
      newKey == getChunksInPartition(merged, minSize)
      p2 == [partition EXCEPT ![oldKey[1]][oldKey[2]] = SetDelete(@, closestChunk)]
  IN  [p2 EXCEPT ![newKey[1]][newKey[2]] = SetAdd(@, merged)]

\* The body of the if (closestChunk) branch. closestChunk is one object: where
\* it stays in a Set it is seen with its new fields.
MergeIntoPartition(partition, sourceKey, mergedChunk, closestChunk, minSize) ==
  LET oldKey == getChunksInPartition(closestChunk, minSize)
      merged == MergedInto(closestChunk, mergedChunk)
      newKey == getChunksInPartition(merged, minSize)
      p1 == [partition EXCEPT ![sourceKey[1]][sourceKey[2]] =
               SetDelete(@, mergedChunk)]
      p2 == [p1 EXCEPT ![oldKey[1]][oldKey[2]] = SetDelete(@, closestChunk)]
      seen(set) == [i \in 1..Len(set) |->
                      IF set[i] = closestChunk THEN merged ELSE set[i]]
      p3 == [big |-> [pure |-> seen(p2.big.pure),
                      sideEffect |-> seen(p2.big.sideEffect)],
             small |-> [pure |-> seen(p2.small.pure),
                        sideEffect |-> seen(p2.small.sideEffect)]]
  IN  [p3 EXCEPT ![newKey[1]][newKey[2]] = SetAdd(@, merged)]

\* Live elements of chunksToBeMerged before the iterator after a merge.
IteratorAfterMerge(partition, sourceKey, idx, closestChunk, minSize) ==
  LET oldKey == getChunksInPartition(closestChunk, minSize)
      set == partition[sourceKey[1]][sourceKey[2]]
  IN  IF oldKey = sourceKey /\ Has(set, closestChunk)
         /\ IndexOf(set, closestChunk) <= idx
      THEN idx - 1 ELSE idx

\* ------------------------------------------------------------------ actions
SmallSideEffect == <<"small", "sideEffect">>
SmallPure == <<"small", "pure">>
BigSideEffect == <<"big", "sideEffect">>
BigPure == <<"big", "pure">>

EmptyPartition ==
  [big |-> [pure |-> <<>>, sideEffect |-> <<>>],
   small |-> [pure |-> <<>>, sideEffect |-> <<>>]]

\* One iteration of for (const [entry, alias] of manualChunkAliasByEntry).
HandleManualEntry ==
  /\ pc = "manual"
  /\ manualIdx < Len(manualChunkAliasByEntry)
  /\ LET entry == manualChunkAliasByEntry[manualIdx + 1][1]
         alias == manualChunkAliasByEntry[manualIdx + 1][2]
         byAlias == IF AliasIndex(manualChunkModulesByAlias, alias) = 0
                    THEN Append(manualChunkModulesByAlias,
                                [alias |-> alias, modules |-> <<>>])
                    ELSE manualChunkModulesByAlias
         i == AliasIndex(byAlias, alias)
         r == addStaticDependenciesToManualChunk(entry, byAlias[i].modules,
                                                 modulesInManualChunks)
     IN  /\ manualChunkModulesByAlias' = [byAlias EXCEPT ![i].modules = r.modules]
         /\ modulesInManualChunks' = r.inManual
         /\ loopSteps' = r.steps
  /\ manualIdx' = manualIdx + 1
  /\ UNCHANGED <<inputVars, pc, chunkDefinitions, allEntries, dynamicEntries,
                 dependentEntriesByModule,
                 dynamicallyDependentEntriesByDynamicEntry, entryIdx,
                 assignedEntriesByModule, chunkModulesBySignature,
                 chunkPartition, mergeIdx, merges>>

\* for (... of Object.entries(manualChunkModulesByAlias)) push, then the start
\* of analyzeModuleGraph: allEntries = new Set(entries).
PushManualChunks ==
  /\ pc = "manual"
  /\ manualIdx = Len(manualChunkAliasByEntry)
  /\ chunkDefinitions' = chunkDefinitions \o ObjectEntries(manualChunkModulesByAlias)
  /\ allEntries' = SetAddAll(<<>>, entries)
  /\ entryIdx' = 0
  /\ pc' = "analyze"
  /\ UNCHANGED <<inputVars, modulesInManualChunks, manualChunkModulesByAlias,
                 manualIdx, dynamicEntries, dependentEntriesByModule,
                 dynamicallyDependentEntriesByDynamicEntry,
                 assignedEntriesByModule, chunkModulesBySignature,
                 chunkPartition, mergeIdx, merges, loopSteps>>

\* One iteration of for (const currentEntry of allEntries).
AnalyzeEntry ==
  /\ pc = "analyze"
  /\ entryIdx < Len(allEntries)
  /\ LET currentEntry == allEntries[entryIdx + 1]
         r == AnalyzeTraversal(currentEntry, <<currentEntry>>, 0,
                [allEntries |-> allEntries, dynamicEntries |-> dynamicEntries,
                 dependentEntriesByModule |-> dependentEntriesByModule])
     IN  /\ allEntries' = r.allEntries
         /\ dynamicEntries' = r.dynamicEntries
         /\ dependentEntriesByModule' = r.dependentEntriesByModule
         /\ loopSteps' = r.steps
  /\ entryIdx' = entryIdx + 1
  /\ UNCHANGED <<inputVars, pc, chunkDefinitions, modulesInManualChunks,
                 manualChunkModulesByAlias, manualIdx,
                 dynamicallyDependentEntriesByDynamicEntry,
                 assignedEntriesByModule, chunkModulesBySignature,
                 chunkPartition, mergeIdx, merges>>

\* The return of analyzeModuleGraph.
FinishAnalysis ==
  /\ pc = "analyze"
  /\ entryIdx = Len(allEntries)
  /\ dynamicallyDependentEntriesByDynamicEntry' =
       getDynamicallyDependentEntriesByDynamicEntry(dependentEntriesByModule,
                                                    dynamicEntries)
  /\ entryIdx' = 0
  /\ pc' = "assign"
  /\ UNCHANGED <<inputVars, chunkDefinitions, modulesInManualChunks,
                 manualChunkModulesByAlias, manualIdx, allEntries,
                 dynamicEntries, dependentEntriesByModule,
                 assignedEntriesByModule, chunkModulesBySignature,
                 chunkPartition, mergeIdx, merges, loopSteps>>

AssignEnv ==
  [dependent |-> dependentEntriesByModule,
   dynDependent |-> dynamicallyDependentEntriesByDynamicEntry,
   staticEntries |-> Range(entries),
   inManual |-> modulesInManualChunks]

\* One iteration of for (const entry of allEntries) in getChunkAssignments.
AssignEntry ==
  /\ pc = "assign"
  /\ entryIdx < Len(allEntries)
  /\ LET entry == allEntries[entryIdx + 1]
         r == assignEntryToStaticDependencies(entry, assignedEntriesByModule,
                                              AssignEnv)
     IN  IF entry \notin modulesInManualChunks
         THEN /\ assignedEntriesByModule' = r.assigned
              /\ loopSteps' = r.steps
         ELSE UNCHANGED <<assignedEntriesByModule, loopSteps>>
  /\ entryIdx' = entryIdx + 1
  /\ UNCHANGED <<inputVars, pc, chunkDefinitions, modulesInManualChunks,
                 manualChunkModulesByAlias, manualIdx, allEntries,
                 dynamicEntries, dependentEntriesByModule,
                 dynamicallyDependentEntriesByDynamicEntry,
                 chunkModulesBySignature, chunkPartition, mergeIdx, merges>>

\* createChunks up to the test of minChunkSize.
GroupModules ==
  /\ pc = "assign"
  /\ entryIdx = Len(allEntries)
  /\ chunkModulesBySignature' =
       getChunkModulesBySignature(assignedEntriesByModule, allEntries)
  /\ pc' = "createChunks"
  /\ UNCHANGED <<inputVars, chunkDefinitions, modulesInManualChunks,
                 manualChunkModulesByAlias, manualIdx, allEntries,
                 dynamicEntries, dependentEntriesByModule,
                 dynamicallyDependentEntriesByDynamicEntry, entryIdx,
                 assignedEntriesByModule, chunkPartition, mergeIdx, merges,
                 loopSteps>>

graphVars == <<modulesInManualChunks, manualChunkModulesByAlias, manualIdx,
               allEntries, dynamicEntries, dependentEntriesByModule,
               dynamicallyDependentEntriesByDynamicEntry, entryIdx,
               assignedEntriesByModule, chunkModulesBySignature>>

\* minChunkSize === 0: Object.values(chunkModulesBySignature) are the chunks.
CreateUnoptimizedChunks ==
  /\ pc = "createChunks"
  /\ minChunkSize = 0
  /\ chunkDefinitions' = chunkDefinitions \o AutomaticChunks(chunkModulesBySignature)
  /\ pc' = "done"
  /\ UNCHANGED <<inputVars, graphVars, chunkPartition, mergeIdx, merges,
                 loopSteps>>

\* getOptimizedChunks up to the first mergeChunks.
PartitionChunks ==
  /\ pc = "createChunks"
  /\ minChunkSize # 0
  /\ chunkPartition' = getPartitionedChunks(chunkModulesBySignature, minChunkSize)
  /\ mergeIdx' = 0
  /\ pc' = "pass1"
  /\ UNCHANGED <<inputVars, graphVars, chunkDefinitions, merges, loopSteps>>

\* One iteration of for (const mergedChunk of chunksToBeMerged).
MergeStep(sourceKey, targetKeys) ==
  LET chunksToBeMerged == chunkPartition[sourceKey[1]][sourceKey[2]]
      mergedChunk == chunksToBeMerged[mergeIdx + 1]
      closest == ClosestChunk(chunkPartition, mergedChunk, targetKeys)
  IN  /\ mergeIdx < Len(chunksToBeMerged)
      /\ IF closest # <<>>
         THEN /\ chunkPartition' = MergeIntoPartition(chunkPartition, sourceKey,
                                     mergedChunk, closest[1], minChunkSize)
              /\ mergeIdx' = IteratorAfterMerge(chunkPartition, sourceKey,
                                     mergeIdx, closest[1], minChunkSize)
              /\ merges' = merges + 1
         ELSE /\ mergeIdx' = mergeIdx + 1
              /\ UNCHANGED <<chunkPartition, merges>>
      /\ UNCHANGED <<inputVars, graphVars, pc, chunkDefinitions, loopSteps>>

Pass1Targets == <<SmallPure, BigPure>>
\* Seeded fault: pass 2 does not look at the big side-effect chunks.
Pass2Targets_NoSideEffect == <<SmallPure, BigPure>>

Pass2Targets == <<SmallPure, BigSideEffect, BigPure>>

MergeSmallSideEffect ==
  /\ pc = "pass1"
  /\ MergeStep(SmallSideEffect, Pass1Targets)

FinishPass1 ==
  /\ pc = "pass1"
  /\ mergeIdx >= Len(chunkPartition.small.sideEffect)
  /\ mergeIdx' = 0
  /\ pc' = "pass2"
  /\ UNCHANGED <<inputVars, graphVars, chunkDefinitions, chunkPartition,
                 merges, loopSteps>>

MergeSmallPure ==
  /\ pc = "pass2"
  /\ MergeStep(SmallPure, Pass2Targets)

OptimizedChunks ==
  chunkPartition.small.sideEffect \o chunkPartition.small.pure
    \o chunkPartition.big.sideEffect \o chunkPartition.big.pure

\* The return of getOptimizedChunks, of createChunks and of getChunkAssignments.
ReturnOptimizedChunks ==
  /\ pc = "pass2"
  /\ mergeIdx >= Len(chunkPartition.small.pure)
  /\ chunkDefinitions' = chunkDefinitions \o AutomaticChunks(OptimizedChunks)
  /\ pc' = "done"
  /\ UNCHANGED <<inputVars, graphVars, chunkPartition, mergeIdx, merges,
                 loopSteps>>

Next ==
  \/ HandleManualEntry
  \/ PushManualChunks
  \/ AnalyzeEntry
  \/ FinishAnalysis
  \/ AssignEntry
  \/ GroupModules
  \/ CreateUnoptimizedChunks
  \/ PartitionChunks
  \/ MergeSmallSideEffect
  \/ FinishPass1
  \/ MergeSmallPure
  \/ ReturnOptimizedChunks

\* ------------------------------------------------------------------- inputs
\* The subsets of S with at most k elements.
RECURSIVE UpTo(_, _)
UpTo(S, k) ==
  IF k = 0 THEN {{}}
  ELSE LET smaller == UpTo(S, k - 1)
       IN  smaller \cup {T \cup {x} : T \in smaller, x \in S}

Unresolved == -1

InternalPairs == {e \in Modules \X Modules : e[1] # e[2]}
StaticPairs == InternalPairs \cup (Modules \X {ExternalModule})
DynamicPairs == Modules \X (Modules \cup {ExternalModule, Unresolved})
ImplicitPairs == InternalPairs

Targets(edges, m) == {e[2] : e \in {x \in edges : x[1] = m}}

\* The graph with the included and the tree-shaken static imports, the
\* included and the tree-shaken dynamic imports and the implicit dependants.
MakeModules(included, shaken, dynIncluded, dynShaken, implicit, effects, big) ==
  [m \in Modules |->
     [dependencies |-> SortedSeq(Targets(included \cup shaken, m)),
      includedDependencies |-> SortedSeq(Targets(included, m)),
      dynamicImports |-> SortedSeq(Targets(dynIncluded \cup dynShaken, m)),
      includedDynamicImports |-> Targets(dynIncluded, m) \cap Modules,
      implicitlyLoadedBefore |-> SortedSeq(Targets(implicit, m)),
      hasEffects |-> m \in effects,
      size |-> IF m \in big THEN MaxModuleSize ELSE 1]]

\* The least set that contains roots and is closed under the edges.
RECURSIVE Closure(_, _)
Closure(roots, edges) ==
  LET next == roots \cup {e[2] : e \in {x \in edges : x[1] \in roots}}
  IN  IF next = roots THEN roots ELSE Closure(next, edges)

\* The graph the bundler hands over: an included dynamic import and an
\* implicit dependant sit in modules that are loaded from the entries, every
\* import sits in a module of the graph, and the modules of the graph are
\* numbered without gaps.
WellFormed(ents, keys, included, shaken, dynIncluded, dynShaken, implicit) ==
  LET live == Closure(Range(ents), included \cup dynIncluded \cup implicit)
      inGraph == Closure(Range(ents) \cup keys \cup live,
                         included \cup shaken \cup dynIncluded \cup dynShaken
                           \cup implicit) \cap Modules
      used == Range(ents) \cup keys
                \cup {e[1] : e \in included \cup shaken \cup dynIncluded
                                     \cup dynShaken \cup implicit}
                \cup ({e[2] : e \in included \cup shaken \cup dynIncluded
                                      \cup dynShaken \cup implicit} \cap Modules)
  IN  /\ \A e \in dynIncluded \cup implicit : e[1] \in live
      /\ \A e \in dynIncluded : e[2] \in Modules
      /\ used \subseteq inGraph
      /\ used = 1..Cardinality(used)
      /\ included \cap shaken = {}
      /\ dynIncluded \cap dynShaken = {}

Aliases == {"a", "b", "1"}

\* The Maps with at most k entries: distinct keys, any aliases.
RECURSIVE ManualMaps(_)
ManualMaps(k) ==
  IF k = 0 THEN {<<>>}
  ELSE LET smaller == ManualMaps(k - 1)
       IN  smaller \cup
           {Append(mp, <<m, a>>) :
              mp \in {x \in smaller : Len(x) = k - 1},
              m \in Modules, a \in Aliases}

DistinctKeys(mp) == \A i, j \in DOMAIN mp : i # j => mp[i][1] # mp[j][1]

Keys(mp) == {mp[i][1] : i \in DOMAIN mp}

Start(ents, mp, minSize, mods) ==
  /\ entries = ents
  /\ manualChunkAliasByEntry = mp
  /\ minChunkSize = minSize
  /\ modules = mods
  /\ pc = "manual"
  /\ chunkDefinitions = <<>>
  /\ modulesInManualChunks = Keys(mp)
  /\ manualChunkModulesByAlias = <<>>
  /\ manualIdx = 0
  /\ allEntries = <<>>
  /\ dynamicEntries = <<>>
  /\ dependentEntriesByModule = [m \in Modules |-> <<>>]
  /\ dynamicallyDependentEntriesByDynamicEntry = <<>>
  /\ entryIdx = 0
  /\ assignedEntriesByModule = <<>>
  /\ chunkModulesBySignature = <<>>
  /\ chunkPartition = EmptyPartition
  /\ mergeIdx = 0
  /\ merges = 0
  /\ loopSteps = 0
  /\ call = NoCall

EntryLists == {[i \in 1..n |-> i] : n \in 0..MaxEntries}

\* Dynamic imports and implicit dependants on top of the included static
\* imports; no manual chunks, no merging.
InitDynamic ==
  \E ents \in EntryLists,
     included \in UpTo(InternalPairs, MaxStaticEdges),
     dynamic \in UpTo(DynamicPairs \cup ImplicitPairs, MaxDynamicEdges),
     kinds \in SUBSET {"shaken", "implicit"} :
       LET implicit == IF "implicit" \in kinds
                       THEN dynamic \cap ImplicitPairs ELSE {}
           dynShaken == IF "shaken" \in kinds THEN dynamic \ implicit
                        ELSE {e \in dynamic \ implicit : e[2] \notin Modules}
           dynIncluded == (dynamic \ implicit) \ dynShaken
       IN  /\ WellFormed(ents, {}, included, {}, dynIncluded, dynShaken, implicit)
           /\ Start(ents, <<>>, 0,
                    MakeModules(included, {}, dynIncluded, dynShaken, implicit,
                                {}, {}))

\* Manual chunks over included and tree-shaken static imports.
InitManual ==
  \E ents \in EntryLists,
     included \in UpTo(InternalPairs, MaxStaticEdges),
     shaken \in UpTo(StaticPairs, MaxShakenEdges),
     dynIncluded \in UpTo(Modules \X Modules, MaxManualDynamicEdges),
     mp \in ManualMaps(MaxManualEntries),
     minSize \in {0, MaxMinChunkSize} :
       /\ DistinctKeys(mp)
       /\ mp # <<>>
       /\ mp[1][2] = "a"
       /\ WellFormed(ents, Keys(mp), included, shaken, dynIncluded, {}, {})
       /\ Start(ents, mp, minSize,
                MakeModules(included, shaken, dynIncluded, {}, {}, {}, {}))

\* Sizes, side effects and a minimum chunk size over included static imports.
InitMerge ==
  \E ents \in EntryLists,
     included \in UpTo(StaticPairs, MaxStaticEdges),
     dynIncluded \in UpTo(Modules \X Modules, MaxMergeDynamicEdges),
     effects \in SUBSET Modules,
     big \in SUBSET Modules,
     minSize \in 1..MaxMinChunkSize :
       /\ WellFormed(ents, {}, included, {}, dynIncluded, {}, {})
       /\ effects \cup big \subseteq
            Closure(Range(ents), included \cup dynIncluded)
       /\ Start(ents, <<>>, minSize,
                MakeModules(included, {}, dynIncluded, {}, {}, effects, big))

\* Everything at once, each a little smaller: a manual chunk, a dynamic
\* import, side effects and a minimum chunk size.
InitMixed ==
  \E ents \in EntryLists,
     included \in UpTo(InternalPairs, MaxStaticEdges - 1),
     dynIncluded \in UpTo(Modules \X Modules, MaxDynamicEdges - 1),
     mp \in ManualMaps(MaxManualEntries - 1),
     effects \in UpTo(Modules, 1),
     minSize \in {0, MaxMinChunkSize} :
       /\ \A i \in DOMAIN mp : mp[i][2] = "a"
       /\ WellFormed(ents, Keys(mp), included, {}, dynIncluded, {}, {})
       /\ Start(ents, mp, minSize,
                MakeModules(included, {}, dynIncluded, {}, {}, effects, {}))

Init == InitDynamic \/ InitManual \/ InitMerge \/ InitMixed

Spec == Init /\ [][Next]_vars

\* ------------------------------------------------- getOptimizedChunks alone
\* createChunks called with any grouping: up to MaxChunks chunks of one module
\* each over SignatureLength entries, with any signatures, sizes and effects.
Signatures == [1..SignatureLength -> {CHAR_DEPENDENT, CHAR_INDEPENDENT}]

RECURSIVE SignatureLists(_)
SignatureLists(k) ==
  IF k = 0 THEN {<<>>}
  ELSE LET smaller == SignatureLists(k - 1)
       IN  smaller \cup
           {Append(l, sg) : l \in {x \in smaller : Len(x) = k - 1},
                            sg \in Signatures}

InitOptimize ==
  \E sigs \in SignatureLists(MaxChunks),
     effects \in SUBSET (1..MaxChunks),
     big \in SUBSET (1..MaxChunks),
     minSize \in 2..MaxMinChunkSize :
       LET all == [i \in 1..SignatureLength |-> i]
       IN  /\ \A i, j \in DOMAIN sigs : i # j => sigs[i] # sigs[j]
           /\ effects \cup big \subseteq DOMAIN sigs
           /\ entries = all
           /\ manualChunkAliasByEntry = <<>>
           /\ minChunkSize = minSize
           /\ modules = [m \in 1..MaxChunks |->
                [dependencies |-> <<>>, includedDependencies |-> <<>>,
                 dynamicImports |-> <<>>, includedDynamicImports |-> {},
                 implicitlyLoadedBefore |-> <<>>,
                 hasEffects |-> m \in effects,
                 size |-> IF m \in big THEN MaxModuleSize ELSE 1]]
           /\ pc = "createChunks"
           /\ chunkDefinitions = <<>>
           /\ modulesInManualChunks = {}
           /\ manualChunkModulesByAlias = <<>>
           /\ manualIdx = 0
           /\ allEntries = all
           /\ dynamicEntries = <<>>
           /\ dependentEntriesByModule = [m \in 1..MaxChunks |-> <<>>]
           /\ dynamicallyDependentEntriesByDynamicEntry = <<>>
           /\ entryIdx = SignatureLength
           /\ assignedEntriesByModule =
                [i \in 1..Len(sigs) |->
                   [module |-> i,
                    entries |-> SelectSeq(all,
                                  LAMBDA e : sigs[i][e] = CHAR_DEPENDENT)]]
           /\ chunkModulesBySignature =
                [i \in 1..Len(sigs) |-> [signature |-> sigs[i], modules |-> <<i>>]]
           /\ chunkPartition = EmptyPartition
           /\ mergeIdx = 0
           /\ merges = 0
           /\ loopSteps = 0
           /\ call = NoCall

NextOptimize ==
  \/ PartitionChunks
  \/ MergeSmallSideEffect
  \/ FinishPass1
  \/ MergeSmallPure
  \/ ReturnOptimizedChunks

SpecOptimize == InitOptimize /\ [][NextOptimize]_vars

\* =================================================================== claims
\* The graph as relations, read off the Module fields.
IncludedEdges ==
  {e \in (DOMAIN modules) \X Modules : Has(modules[e[1]].includedDependencies, e[2])}

DependencyEdges ==
  {e \in (DOMAIN modules) \X Modules : Has(modules[e[1]].dependencies, e[2])}

\* Where module m occurs in the output: <<chunk, position>>.
Positions(m) ==
  UNION {{<<i, j>> : j \in {k \in DOMAIN chunkDefinitions[i].modules :
                              chunkDefinitions[i].modules[k] = m}} :
         i \in DOMAIN chunkDefinitions}

ManualChunks == SelectSeq(chunkDefinitions, LAMBDA c : c.alias # NoAlias)
AutoChunks == SelectSeq(chunkDefinitions, LAMBDA c : c.alias = NoAlias)

ModulesOf(chunks) == UNION {Range(chunks[i].modules) : i \in DOMAIN chunks}

CollectedByManualTraversal ==
  UNION {Range(manualChunkModulesByAlias[i].modules) :
         i \in DOMAIN manualChunkModulesByAlias}

AssignedSet(m) ==
  IF AssignedIndex(assignedEntriesByModule, m) = 0 THEN {}
  ELSE Range(assignedEntriesByModule[AssignedIndex(assignedEntriesByModule, m)].entries)

\* C1: in the returned chunks every module that is reachable over included
\* static dependencies from an entry of allEntries, or that a manual-chunk
\* traversal collected, occurs exactly once (in one chunk, at one position),
\* and no module of a manual chunk occurs in an automatic chunk.
C1_ExactlyOneChunk ==
  pc = "done" =>
    /\ \A m \in Closure(Range(allEntries), IncludedEdges)
                  \cup CollectedByManualTraversal :
         Cardinality(Positions(m)) = 1
    /\ ModulesOf(ManualChunks) \cap ModulesOf(AutoChunks) = {}

C1_Witness ==
  /\ pc = "done"
  /\ merges > 0
  /\ Len(ManualChunks) > 0
  /\ Len(AutoChunks) > 0
  /\ dynamicEntries # <<>>

\* The preliminary (pre-merge) signature of module m.
PreliminarySignature(m) ==
  LET i == CHOOSE i \in DOMAIN chunkModulesBySignature :
             Has(chunkModulesBySignature[i].modules, m)
  IN  chunkModulesBySignature[i].signature

LiveChunks ==
  Range(chunkPartition.small.sideEffect) \cup Range(chunkPartition.small.pure)
    \cup Range(chunkPartition.big.sideEffect) \cup Range(chunkPartition.big.pure)

\* C2: during and after the merge passes, every chunk that contains a module
\* with side effects has the preliminary signature of each such module: a
\* merge never widens the signature of a chunk with side effects and never
\* joins two preliminary chunks with side effects.
C2_SideEffectSafety ==
  pc \in {"pass1", "pass2", "done"} =>
    \A c \in LiveChunks : \A i \in DOMAIN c.modules :
      hasEffects(c.modules[i]) => c.signature = PreliminarySignature(c.modules[i])

C2_Witness ==
  /\ pc = "done"
  /\ merges >= 2
  /\ \A i \in DOMAIN chunkModulesBySignature :
       CHAR_DEPENDENT \in Range(chunkModulesBySignature[i].signature)
  /\ \E c \in LiveChunks :
       /\ Len(c.modules) >= 3
       /\ \E i \in DOMAIN c.modules : hasEffects(c.modules[i])

\* The entries loaded on the way to ek: a user entry, then dynamic entries each
\* dynamically dependent on its predecessor. Paths without repetition suffice.
LoadPaths ==
  {p \in UNION {[1..n -> Range(allEntries)] : n \in 1..Len(allEntries)} :
     /\ p[1] \in Range(entries)
     /\ \A i \in 1..(Len(p) - 1) :
          /\ p[i + 1] \in DOMAIN dynamicallyDependentEntriesByDynamicEntry
          /\ Has(dynamicallyDependentEntriesByDynamicEntry[p[i + 1]], p[i])}

\* C3: once the entries are assigned, for every load path e0..ek, every module
\* outside the manual chunks that is reachable over included static
\* dependencies from ek is assigned to at least one of e0..ek.
C3_ElisionSound ==
  pc \in {"createChunks", "pass1", "pass2", "done"} =>
    \A p \in LoadPaths :
      \A m \in Closure({p[Len(p)]}, IncludedEdges) \ modulesInManualChunks :
        AssignedSet(m) \cap Range(p) # {}

C3_Witness ==
  /\ pc = "done"
  /\ \E p \in LoadPaths :
       /\ Len(p) = 3
       /\ \E m \in Closure({p[3]}, IncludedEdges) \ modulesInManualChunks :
            /\ p[3] \notin AssignedSet(m)
            /\ p[2] \notin AssignedSet(m)

ChunkOf(m) ==
  CHOOSE i \in DOMAIN chunkDefinitions : Has(chunkDefinitions[i].modules, m)

\* C4: with minChunkSize 0, two modules are in the same automatic chunk exactly
\* when their assigned-entry sets are equal, there is one automatic chunk per
\* distinct assigned-entry set, and nothing was merged.
C4_ChunksBySignature ==
  (pc = "done" /\ minChunkSize = 0) =>
    /\ \A m1, m2 \in ModulesOf(AutoChunks) :
         (ChunkOf(m1) = ChunkOf(m2)) <=> (AssignedSet(m1) = AssignedSet(m2))
    /\ Len(AutoChunks) =
         Cardinality({AssignedSet(m) : m \in ModulesOf(AutoChunks)})
    /\ ModulesOf(AutoChunks) =
         {assignedEntriesByModule[i].module : i \in DOMAIN assignedEntriesByModule}
    /\ merges = 0

C4_Witness ==
  /\ pc = "done"
  /\ minChunkSize = 0
  /\ Len(AutoChunks) >= 2
  /\ \E i \in DOMAIN AutoChunks : Len(AutoChunks[i].modules) >= 2
  /\ dynamicEntries # <<>>

\* ------------------------------------------------------------------ C5
\* The modules the traversal from key k can collect when nothing was collected
\* before it: the keys of manualChunkAliasByEntry are in modulesInManualChunks
\* from the start, so a traversal never walks into another key.
KeylessReach(k) ==
  Closure({k}, {e \in DependencyEdges : e[2] \notin Keys(manualChunkAliasByEntry)})

\* The aliases of the output chunks that hold module m.
AliasesOf(m) ==
  {chunkDefinitions[n].alias :
     n \in {k \in DOMAIN chunkDefinitions : Has(chunkDefinitions[k].modules, m)}}

\* The entries of manualChunkAliasByEntry whose key reaches m over `dependencies`.
ReachingEntries(m) ==
  {i \in DOMAIN manualChunkAliasByEntry :
     m \in Closure({manualChunkAliasByEntry[i][1]}, DependencyEdges)}

Least(S) == CHOOSE x \in S : \A y \in S : x <= y

\* C5 as stated: a module reachable over `dependencies` from the manual entries
\* of two different aliases is in the chunk of the alias that comes first in the
\* iteration order of manualChunkAliasByEntry, and in no other chunk.
C5_FirstAliasWins ==
  pc # "manual" =>
    \A m \in Modules :
      Cardinality({manualChunkAliasByEntry[i][2] : i \in ReachingEntries(m)}) >= 2
        => AliasesOf(m) = {manualChunkAliasByEntry[Least(ReachingEntries(m))][2]}

\* C5 amended: a module is in the chunk of the alias of the first entry of
\* manualChunkAliasByEntry whose key reaches it over `dependencies` along a
\* path on which no module after the key is itself a key, and in no other
\* chunk; a key is therefore always in the chunk of its own alias.
C5_FirstKeylessAliasWins ==
  pc # "manual" =>
    \A m \in Modules : \A i \in DOMAIN manualChunkAliasByEntry :
      (/\ m \in KeylessReach(manualChunkAliasByEntry[i][1])
       /\ \A j \in 1..(i - 1) : m \notin KeylessReach(manualChunkAliasByEntry[j][1]))
        => AliasesOf(m) = {manualChunkAliasByEntry[i][2]}

C5_Witness ==
  /\ pc = "done"
  /\ \E m \in Modules \ Keys(manualChunkAliasByEntry) :
       /\ Cardinality({manualChunkAliasByEntry[i][2] : i \in ReachingEntries(m)}) >= 2
       /\ \A i \in DOMAIN manualChunkAliasByEntry :
            m \in KeylessReach(manualChunkAliasByEntry[i][1])
       /\ AliasesOf(m) = {manualChunkAliasByEntry[1][2]}

\* ------------------------------------------------------------------ C6
\* The aliases in the order in which manualChunkAliasByEntry introduces them.
AliasesInIterationOrder ==
  SetAddAll(<<>>, [i \in DOMAIN manualChunkAliasByEntry |->
                     manualChunkAliasByEntry[i][2]])

\* C6 as stated: the result is the manual chunks, one per alias, in the
\* iteration order of the first entry that introduced each alias, followed by
\* the automatic chunks; with minChunkSize > 0 these are the remaining small
\* side-effect, small pure, big side-effect and big pure chunks, in this order.
C6_OutputOrder ==
  pc = "done" =>
    /\ chunkDefinitions = ManualChunks \o AutoChunks
    /\ [i \in DOMAIN ManualChunks |-> ManualChunks[i].alias] = AliasesInIterationOrder
    /\ minChunkSize > 0 =>
         [i \in DOMAIN AutoChunks |-> AutoChunks[i].modules]
           = [i \in DOMAIN OptimizedChunks |-> OptimizedChunks[i].modules]

\* ------------------------------------------------------------------ C7
DependentPositions(signature) ==
  {i \in DOMAIN signature : signature[i] = CHAR_DEPENDENT}

\* Some pure chunk has CHAR_DEPENDENT only where S has it.
SuitablePureChunk(S) ==
  \E T \in Range(chunkPartition.small.pure) \cup Range(chunkPartition.big.pure) :
    DependentPositions(T.signature) \subseteq DependentPositions(S.signature)

\* The small side-effect chunks pass 1 has processed and left unmerged.
ProcessedSideEffectChunks ==
  IF pc = "pass1"
  THEN SubSeq(chunkPartition.small.sideEffect, 1, mergeIdx)
  ELSE chunkPartition.small.sideEffect

\* C7: when pass 1 processes a small side-effect chunk S, it merges S if and
\* only if some pure chunk of small.pure or big.pure has a signature whose 'X'
\* positions are all 'X' in the signature of S; an S that is not merged is left
\* as it is, stays in small.sideEffect for the rest of both passes, and is
\* returned as a chunk of exactly its modules.
C7_Pass1MergesIffSuitable ==
  [][/\ (pc = "pass1" /\ mergeIdx < Len(chunkPartition.small.sideEffect)) =>
          LET S == chunkPartition.small.sideEffect[mergeIdx + 1]
          IN  /\ (merges' = merges + 1) <=> SuitablePureChunk(S)
              /\ ~SuitablePureChunk(S) =>
                   /\ chunkPartition' = chunkPartition
                   /\ mergeIdx' = mergeIdx + 1
     /\ pc \in {"pass1", "pass2"} =>
          \A c \in Range(ProcessedSideEffectChunks) :
            c \in Range(chunkPartition'.small.sideEffect)
     /\ (pc = "pass2" /\ pc' = "done") =>
          \A c \in Range(chunkPartition.small.sideEffect) :
            \E n \in DOMAIN chunkDefinitions' :
              chunkDefinitions'[n] = [alias |-> NoAlias, modules |-> c.modules]
    ]_vars

C7_Witness ==
  /\ pc = "done"
  /\ chunkPartition.small.sideEffect # <<>>
  /\ \A i \in DOMAIN chunkModulesBySignature :
       DependentPositions(chunkModulesBySignature[i].signature) # {}
  /\ \E c \in LiveChunks :
       /\ Len(c.modules) >= 2
       /\ ~hasEffects(c.modules[1])
       /\ hasEffects(c.modules[2])

\* ------------------------------------------------------------------ C8
\* The preliminary chunks as getPartitionedChunks describes them.
PreliminaryChunks ==
  [i \in DOMAIN chunkModulesBySignature |->
     ChunkDescription(chunkModulesBySignature[i].signature,
                      chunkModulesBySignature[i].modules)]

\* Two small side-effect chunks 'X_' and '_X' and one big pure chunk 'XX'.
Scenario8 ==
  /\ minChunkSize > 0
  /\ Len(PreliminaryChunks) = 3
  /\ {<<c.signature, c.size < minChunkSize, c.pure>> :
        c \in Range(PreliminaryChunks)}
       = {<<<<CHAR_DEPENDENT, CHAR_INDEPENDENT>>, TRUE, FALSE>>,
          <<<<CHAR_INDEPENDENT, CHAR_DEPENDENT>>, TRUE, FALSE>>,
          <<<<CHAR_DEPENDENT, CHAR_DEPENDENT>>, FALSE, TRUE>>}

\* C8 as stated: in this scenario pass 1 merges both side-effect chunks into
\* the 'XX' chunk, the result is one chunk with signature 'XX' that holds all
\* modules, and no small chunk remains.
C8_MergedIntoOneChunk ==
  (pc = "done" /\ Scenario8) =>
    /\ Len(AutoChunks) = 1
    /\ \A c \in LiveChunks :
         /\ c.signature = <<CHAR_DEPENDENT, CHAR_DEPENDENT>>
         /\ Range(c.modules) = ModulesOf(AutoChunks)
    /\ chunkPartition.small.sideEffect = <<>>
    /\ chunkPartition.small.pure = <<>>

\* C8 amended: in this scenario nothing is merged; the result is the three
\* preliminary chunks with their modules and signatures, the two small
\* side-effect chunks first, in ascending size, then the 'XX' chunk.
C8_NothingMerged ==
  (pc = "done" /\ Scenario8) =>
    /\ merges = 0
    /\ Len(AutoChunks) = 3
    /\ LiveChunks = Range(PreliminaryChunks)
    /\ Len(chunkPartition.small.sideEffect) = 2
    /\ chunkPartition.small.sideEffect[1].size <= chunkPartition.small.sideEffect[2].size
    /\ [i \in 1..3 |-> AutoChunks[i].modules]
         = <<chunkPartition.small.sideEffect[1].modules,
             chunkPartition.small.sideEffect[2].modules,
             chunkPartition.big.pure[1].modules>>

C8_Witness ==
  /\ pc = "done"
  /\ Scenario8
  /\ Len(AutoChunks) = 3

\* ------------------------------------------------------------------ C9
\* No manual alias, and no entry has a static, dynamic or implicit dependency.
TrivialInput ==
  /\ manualChunkAliasByEntry = <<>>
  /\ \A i \in DOMAIN entries :
       /\ dependencies(entries[i]) = <<>>
       /\ getDependenciesToBeIncluded(entries[i]) = <<>>
       /\ dynamicImports(entries[i]) = <<>>
       /\ implicitlyLoadedBefore(entries[i]) = <<>>
       /\ implicitlyLoadedAfter(entries[i]) = <<>>

OneChunkPerEntry ==
  /\ Len(chunkDefinitions) = Len(entries)
  /\ {chunkDefinitions[n].modules : n \in DOMAIN chunkDefinitions}
       = {<<entries[i]>> : i \in DOMAIN entries}

\* C9 as stated: without entries and manual aliases the result is empty, and
\* when no entry has a dependency or a manual alias the result has one chunk
\* per entry, each of exactly one module, for every minChunkSize.
C9_TrivialInputs ==
  pc = "done" =>
    /\ (entries = <<>> /\ manualChunkAliasByEntry = <<>>) => chunkDefinitions = <<>>
    /\ TrivialInput => OneChunkPerEntry

\* An entry without side effects that is smaller than minChunkSize, and
\* another entry without side effects.
SmallPureEntryWithPurePartner ==
  \E i, j \in DOMAIN entries :
    /\ i # j
    /\ ~hasEffects(entries[i])
    /\ ~hasEffects(entries[j])
    /\ ModuleSize(entries[i]) < minChunkSize

\* C9 amended: without entries and manual aliases the result is empty; when
\* no entry has a dependency or a manual alias, the result has one chunk per
\* entry, each of exactly one module, if minChunkSize is 0 or no entry without
\* side effects is smaller than minChunkSize while another entry is without
\* side effects.
C9_TrivialInputsUnmerged ==
  pc = "done" =>
    /\ (entries = <<>> /\ manualChunkAliasByEntry = <<>>) => chunkDefinitions = <<>>
    /\ (TrivialInput /\ (minChunkSize = 0 \/ ~SmallPureEntryWithPurePartner))
         => OneChunkPerEntry

C9_Witness ==
  /\ pc = "done"
  /\ TrivialInput
  /\ Len(entries) = 2
  /\ chunkPartition.small.pure # <<>>
  /\ chunkPartition.big.sideEffect # <<>>
  /\ OneChunkPerEntry

\* ----------------------------------------------------------------- C10
\* Graphs with static cycles and dynamic imports of any module, a manual
\* chunk or none, and a minimum chunk size no chunk reaches, so that every
\* merged chunk goes back into the set of small chunks.
InitTermination ==
  \E ents \in EntryLists,
     included \in UpTo(InternalPairs, MaxStaticEdges - 1),
     dynIncluded \in UpTo(Modules \X Modules, MaxDynamicEdges - 1),
     mp \in {<<>>, <<<<NumModules, "a">>>>},
     effects \in {{}, {1}},
     minSize \in {0, NumModules + 1} :
       /\ WellFormed(ents, Keys(mp), included, {}, dynIncluded, {}, {})
       /\ Start(ents, mp, minSize,
                MakeModules(included, {}, dynIncluded, {}, {}, effects, {}))

\* getChunkAssignments runs on: a step that can be taken is taken.
FairSpec == InitTermination /\ [][Next]_vars /\ WF_vars(Next)

\* C10: getChunkAssignments reaches its return; no traversal of a live Set
\* runs more often than there are modules, and the merge passes perform at
\* most (number of preliminary chunks - 1) merges.
C10_Termination ==
  /\ [](loopSteps <= NumModules)
  /\ [](merges <= IF chunkModulesBySignature = <<>> THEN 0
                  ELSE Len(chunkModulesBySignature) - 1)
  /\ <>(pc = "done")

C10_Witness ==
  /\ pc = "done"
  /\ \E m, n \in Modules :
       m # n /\ <<m, n>> \in IncludedEdges /\ <<n, m>> \in IncludedEdges
  /\ \E m \in Modules :
       modules[m].includedDynamicImports \cap (Range(entries) \cup {m}) # {}
  /\ merges > 0
  /\ \E c \in Range(chunkPartition.small.pure) :
       \A i \in DOMAIN chunkModulesBySignature :
         chunkModulesBySignature[i].modules # c.modules

\* ----------------------------------------- functions called on their own
\* The variables of getChunkAssignments while another function is called.
Idle ==
  /\ entries = <<>>
  /\ manualChunkAliasByEntry = <<>>
  /\ minChunkSize = 0
  /\ modules = <<>>
  /\ pc = "call"
  /\ chunkDefinitions = <<>>
  /\ modulesInManualChunks = {}
  /\ manualChunkModulesByAlias = <<>>
  /\ manualIdx = 0
  /\ allEntries = <<>>
  /\ dynamicEntries = <<>>
  /\ dependentEntriesByModule = <<>>
  /\ dynamicallyDependentEntriesByDynamicEntry = <<>>
  /\ entryIdx = 0
  /\ assignedEntriesByModule = <<>>
  /\ chunkModulesBySignature = <<>>
  /\ chunkPartition = EmptyPartition
  /\ mergeIdx = 0
  /\ merges = 0
  /\ loopSteps = 0

idleVars == <<entries, manualChunkAliasByEntry, minChunkSize, modules, pc,
              chunkDefinitions, modulesInManualChunks, manualChunkModulesByAlias,
              manualIdx, allEntries, dynamicEntries, dependentEntriesByModule,
              dynamicallyDependentEntriesByDynamicEntry, entryIdx,
              assignedEntriesByModule, chunkModulesBySignature, chunkPartition,
              mergeIdx, merges, loopSteps>>

\* Three signatures of one length, up to SignatureLength, and enforceSubset.
InitSignatures ==
  \E n \in 0..SignatureLength :
    \E s, t, u \in [1..n -> {CHAR_DEPENDENT, CHAR_INDEPENDENT}], e \in BOOLEAN :
      /\ Idle
      /\ call = [op |-> "pending", sourceSignature |-> s, targetSignature |-> t,
                 otherSignature |-> u, enforceSubset |-> e, result |-> <<>>]

CallMergeSignatures ==
  /\ pc = "call"
  /\ call.op = "pending"
  /\ call' = [call EXCEPT
                !.op = "mergeSignatures",
                !.result = mergeSignatures(call.sourceSignature,
                                           call.targetSignature)]
  /\ UNCHANGED idleVars

CallGetSignatureDistance ==
  /\ pc = "call"
  /\ call.op = "pending"
  /\ call' = [call EXCEPT
                !.op = "getSignatureDistance",
                !.result = getSignatureDistance(call.sourceSignature,
                             call.targetSignature, call.enforceSubset)]
  /\ UNCHANGED idleVars

NextSignatures ==
  \/ CallMergeSignatures
  \/ CallGetSignatureDistance

SpecSignatures == InitSignatures /\ [][NextSignatures]_vars

\* ----------------------------------------------------------------- C12
\* C12: mergeSignatures on signatures of equal length is commutative,
\* associative and idempotent, and its result has 'X' at a position exactly
\* when at least one argument has 'X' there.
C12_MergeSignaturesLaws ==
  call.op = "mergeSignatures" =>
    LET s == call.sourceSignature
        t == call.targetSignature
        u == call.otherSignature
        r == call.result
    IN  /\ r = mergeSignatures(t, s)
        /\ mergeSignatures(r, u) = mergeSignatures(s, mergeSignatures(t, u))
        /\ mergeSignatures(s, s) = s
        /\ DOMAIN r = DOMAIN s
        /\ \A i \in DOMAIN r :
             /\ r[i] \in {CHAR_DEPENDENT, CHAR_INDEPENDENT}
             /\ (r[i] = CHAR_DEPENDENT) <=>
                  (s[i] = CHAR_DEPENDENT \/ t[i] = CHAR_DEPENDENT)

C12_Witness ==
  /\ call.op = "mergeSignatures"
  /\ Len(call.result) = SignatureLength
  /\ call.result # call.sourceSignature
  /\ call.result # call.targetSignature
  /\ call.result # call.otherSignature

\* ----------------------------------------------------------------- C13
\* The positions where s and t differ.
DifferingPositions(s, t) == {i \in DOMAIN s : s[i] # t[i]}

\* C13: getSignatureDistance(s, s, e) is 0; getSignatureDistance(s, t, TRUE)
\* is infinite when s has 'X' at a position where t has '_'; otherwise, and
\* always with enforceSubset FALSE, it is the number of positions where s and
\* t differ.
C13_SignatureDistanceLaws ==
  call.op = "getSignatureDistance" =>
    LET s == call.sourceSignature
        t == call.targetSignature
        e == call.enforceSubset
    IN  /\ getSignatureDistance(s, s, e) = Finite(0)
        /\ getSignatureDistance(t, t, e) = Finite(0)
        /\ call.result =
             IF e /\ \E i \in DOMAIN s :
                       s[i] = CHAR_DEPENDENT /\ t[i] = CHAR_INDEPENDENT
             THEN Infinity
             ELSE Finite(Cardinality(DifferingPositions(s, t)))

C13_Witness ==
  /\ call.op = "getSignatureDistance"
  /\ call.enforceSubset
  /\ call.result = Finite(2)
  /\ getSignatureDistance(call.targetSignature, call.sourceSignature, TRUE)
       = Infinity

\* ----------------------------------------------------------------- C14
\* The chunk the running pass handles next, and the candidate targets other
\* than it, in the scan order of the candidate sets.
SourceKey == IF pc = "pass1" THEN SmallSideEffect ELSE SmallPure

SourceChunk == chunkPartition[SourceKey[1]][SourceKey[2]][mergeIdx + 1]

Candidates ==
  SelectSeq(TargetChunks(chunkPartition,
                         IF pc = "pass1" THEN Pass1Targets ELSE Pass2Targets),
            LAMBDA T : T # SourceChunk)

\* C14: whenever a source chunk S is merged, in either pass, the chosen target
\* has the minimum signature distance among the candidates other than S, and
\* it is the earliest in scan order among the candidates at that distance.
C14_ClosestEarliestTarget ==
  [][merges' = merges + 1 =>
       \E i \in DOMAIN Candidates :
         /\ \E c \in Range(Flatten(<<chunkPartition'.small.sideEffect,
                                     chunkPartition'.small.pure,
                                     chunkPartition'.big.sideEffect,
                                     chunkPartition'.big.pure>>)) :
              c.modules = Candidates[i].modules \o SourceChunk.modules
         /\ MergeDistance(SourceChunk, Candidates[i]).finite
         /\ \A j \in DOMAIN Candidates :
              /\ ~LessThan(MergeDistance(SourceChunk, Candidates[j]),
                           MergeDistance(SourceChunk, Candidates[i]))
              /\ j < i => LessThan(MergeDistance(SourceChunk, Candidates[i]),
                                   MergeDistance(SourceChunk, Candidates[j]))
    ]_vars

\* A chunk was merged into the second of its candidates, which is closer than
\* the first, and every preliminary signature has a dependent entry.
C14_Witness ==
  /\ pc \in {"pass1", "pass2"}
  /\ merges >= 1
  /\ \A i \in DOMAIN chunkModulesBySignature :
       DependentPositions(chunkModulesBySignature[i].signature) # {}
  /\ \E n \in DOMAIN chunkModulesBySignature :
       LET S == PreliminaryChunks[n]
           others == SelectSeq(PreliminaryChunks, LAMBDA T : T # S)
       IN  /\ Len(others) = 2
           /\ MergeDistance(S, others[1]).finite
           /\ LessThan(MergeDistance(S, others[2]), MergeDistance(S, others[1]))
           /\ \E c \in LiveChunks : c.modules = others[2].modules \o S.modules

\* ----------------------------------------------------------------- C15
\* The included dependencies the assignment may walk: the target is neither
\* external nor in a manual chunk.
AssignEdges == {e \in IncludedEdges : e[2] \notin modulesInManualChunks}

\* The entry the iteration of getChunkAssignments in progress assigns, and the
\* modules its traversal visits.
AssignedEntry == allEntries[entryIdx + 1]

VisitedForEntry ==
  Range(assignEntryToStaticDependencies(AssignedEntry, assignedEntriesByModule,
                                        AssignEnv).handled)

\* The step is a traversal: its entry is in no manual chunk.
TraversalStep ==
  /\ pc = "assign"
  /\ entryIdx' = entryIdx + 1
  /\ AssignedEntry \notin modulesInManualChunks

\* The least set that holds E and the walked dependencies of its members that
\* are attributed to E.
RECURSIVE AttributedClosure(_, _, _)
AttributedClosure(W, E, assigned) ==
  LET attributed == {M \in W : AssignedIndex(assigned, M) # 0
                        /\ Has(assigned[AssignedIndex(assigned, M)].entries, E)}
      next == W \cup {e[2] : e \in {x \in AssignEdges : x[1] \in attributed}}
  IN  IF next = W THEN W ELSE AttributedClosure(next, E, assigned)

\* C15 as stated: when the attribution of a visited module M to the entry E
\* is skipped, the traversal for E still visits M's included, non-external,
\* non-manual dependencies: it visits all that E reaches over them.
C15_SkippedModulesAreTraversed ==
  [][TraversalStep =>
       /\ \A e \in AssignEdges : e[1] \in VisitedForEntry => e[2] \in VisitedForEntry
       /\ loopSteps' = Cardinality(Closure({AssignedEntry}, AssignEdges))
    ]_vars

\* C15 amended: the traversal for E does not go on from a module whose
\* attribution to E is skipped; it visits E and the included, non-external,
\* non-manual dependencies of the visited modules that are attributed to E,
\* and nothing else.
C15_SkippedModulesEndTraversal ==
  [][TraversalStep =>
       /\ VisitedForEntry =
            AttributedClosure({AssignedEntry}, AssignedEntry,
                              assignedEntriesByModule')
       /\ loopSteps' = Cardinality(VisitedForEntry)
       /\ \A M \in VisitedForEntry : AssignedIndex(assignedEntriesByModule', M) # 0
    ]_vars

\* The entry just assigned was skipped for a module with a walked dependency
\* that, for this reason, was not visited.
C15_Witness ==
  /\ pc = "assign"
  /\ entryIdx >= 1
  /\ LET E == allEntries[entryIdx]
     IN  /\ E \notin modulesInManualChunks
         /\ loopSteps < Cardinality(Closure({E}, AssignEdges))
         /\ \E e \in AssignEdges :
              /\ e[1] \in AttributedClosure({E}, E, assignedEntriesByModule)
              /\ E \notin AssignedSet(e[1])
              /\ e[2] \notin AttributedClosure({E}, E, assignedEntriesByModule)

\* ------------------------- areEntriesContainedOrDynamicallyDependent alone
\* The entries of a direct call: the first half are user entries, the others
\* dynamic entries.
CheckedEntries == 1..MaxCheckedEntries
CheckedStaticEntries == 1..(MaxCheckedEntries \div 2)

\* The Sets over `among` in every insertion order.
OrderedSets(among) ==
  {q \in UNION {[1..n -> among] : n \in 0..Cardinality(among)} :
     \A i, j \in DOMAIN q : i # j => q[i] # q[j]}

Reverse(q) == [i \in 1..Len(q) |-> q[Len(q) + 1 - i]]

\* Any entries in any order, any containedIn, and for every dynamic entry any
\* Set of dynamically dependent entries, in ascending or descending order.
InitContained ==
  \E entrySet \in OrderedSets(CheckedEntries),
     containedIn \in SUBSET CheckedEntries,
     dependent \in [CheckedEntries \ CheckedStaticEntries -> SUBSET CheckedEntries],
     descending \in BOOLEAN :
       /\ Idle
       /\ call = [op |-> "pending",
                  entries |-> entrySet,
                  containedIn |-> SortedSeq(containedIn),
                  staticEntries |-> CheckedStaticEntries,
                  dynamicallyDependentEntriesByDynamicEntry |->
                    [e \in CheckedEntries \ CheckedStaticEntries |->
                       IF descending THEN Reverse(SortedSeq(dependent[e]))
                       ELSE SortedSeq(dependent[e])],
                  result |-> FALSE]

CallAreEntriesContainedOrDynamicallyDependent ==
  /\ pc = "call"
  /\ call.op = "pending"
  /\ call' = [call EXCEPT
                !.op = "areEntriesContainedOrDynamicallyDependent",
                !.result = areEntriesContainedOrDynamicallyDependent(
                             call.entries, call.containedIn, call.staticEntries,
                             call.dynamicallyDependentEntriesByDynamicEntry)]
  /\ UNCHANGED idleVars

SpecContained ==
  InitContained /\ [][CallAreEntriesContainedOrDynamicallyDependent]_vars

\* ----------------------------------------------------------------- C16
\* The least set that contains W and, for each of its members outside
\* containedIn, the entries dynamically dependent on it.
RECURSIVE WorkingSet(_, _, _)
WorkingSet(W, containedIn, dynDependent) ==
  LET next == W \cup UNION {Range(dynDependent[e]) :
                              e \in (W \ containedIn) \cap DOMAIN dynDependent}
  IN  IF next = W THEN W ELSE WorkingSet(next, containedIn, dynDependent)

\* C16: areEntriesContainedOrDynamicallyDependent(entries, containedIn) is true
\* exactly when entries has at most 3 elements and every member of the least
\* working set that is outside containedIn is a dynamic entry, not a user
\* entry, with at most 3 dynamically dependent entries; the result is the same
\* for every order of the Sets, and true for containedIn implies true for
\* every superset of containedIn.
C16_ContainedOrDynamicallyDependent ==
  call.op = "areEntriesContainedOrDynamicallyDependent" =>
    LET dynDependent == call.dynamicallyDependentEntriesByDynamicEntry
        containedIn == Range(call.containedIn)
        W == WorkingSet(Range(call.entries), containedIn, dynDependent)
    IN  /\ call.result <=>
             /\ Len(call.entries) <= 3
             /\ \A e \in W \ containedIn :
                  /\ e \notin call.staticEntries
                  /\ e \in DOMAIN dynDependent
                  /\ Len(dynDependent[e]) <= 3
        /\ call.result =
             areEntriesContainedOrDynamicallyDependent(Reverse(call.entries),
               Reverse(call.containedIn), call.staticEntries,
               [e \in DOMAIN dynDependent |-> Reverse(dynDependent[e])])
        /\ call.result =>
             \A more \in SUBSET CheckedEntries :
               areEntriesContainedOrDynamicallyDependent(call.entries,
                 SortedSeq(containedIn \cup more), call.staticEntries,
                 dynDependent)

\* A call that returns true after it went on from a dynamic entry outside
\* containedIn to entries that were not passed in.
C16_Witness ==
  /\ call.op = "areEntriesContainedOrDynamicallyDependent"
  /\ call.result
  /\ Len(call.entries) = 3
  /\ Range(call.entries) \ Range(call.containedIn) # {}
  /\ WorkingSet(Range(call.entries), Range(call.containedIn),
                call.dynamicallyDependentEntriesByDynamicEntry)
       # Range(call.entries)

\* ----------------------------------------------------------------- C17
\* The modules reachable from E (E included) over included non-external
\* static dependencies.
StaticReach(E) == Closure({E}, IncludedEdges)

\* What module m makes an entry: the resolutions of its dynamic imports that
\* have an included dynamic importer, and its implicitlyLoadedBefore
\* dependencies.
Discoverable(m) ==
  {r \in Range(dynamicImports(m)) :
     IsModule(r) /\ Len(includedDynamicImporters(r)) > 0}
    \cup Range(implicitlyLoadedBefore(m))

DiscoverableFrom(E) == UNION {Discoverable(m) : m \in StaticReach(E)}

\* The number of static imports on a shortest path from the modules in
\* `reached` to a module that makes D an entry.
RECURSIVE DiscoveryDepth(_, _, _)
DiscoveryDepth(reached, D, n) ==
  IF \E m \in reached : D \in Discoverable(m) THEN n
  ELSE DiscoveryDepth(
         reached \cup {e[2] : e \in {x \in IncludedEdges : x[1] \in reached}},
         D, n + 1)

\* The position in allEntries of the first entry from which the entry at
\* position k is discovered.
Finder(k) ==
  Least({i \in DOMAIN allEntries : allEntries[k] \in DiscoverableFrom(allEntries[i])})

\* C17: when analyzeModuleGraph has returned, allEntries is the user entries in input order
\* followed, each once and in discovery order, by every module that is a
\* dynamic-import resolution with an included dynamic importer, or an
\* implicitlyLoadedBefore dependency, of a module statically reachable from an
\* entry already in allEntries; and dependentEntriesByModule[M] is the set of
\* the entries of allEntries from which M is reachable over included
\* non-external static dependencies.
C17_AnalysisResult ==
  pc = "assign" =>
    LET n == Len(entries)
        found == (n + 1)..Len(allEntries)
    IN  /\ SubSeq(allEntries, 1, n) = entries
        /\ \A i, j \in DOMAIN allEntries : i # j => allEntries[i] # allEntries[j]
        /\ Range(allEntries) =
             Closure(Range(entries),
                     {e \in Modules \X Modules : e[2] \in DiscoverableFrom(e[1])})
        /\ \A k \in found :
             /\ \E i \in 1..(k - 1) :
                  allEntries[k] \in DiscoverableFrom(allEntries[i])
             /\ \A l \in found :
                  k < l =>
                    \/ Finder(k) < Finder(l)
                    \/ /\ Finder(k) = Finder(l)
                       /\ DiscoveryDepth({allEntries[Finder(k)]}, allEntries[k], 0)
                            <= DiscoveryDepth({allEntries[Finder(l)]},
                                              allEntries[l], 0)
        /\ \A M \in DOMAIN dependentEntriesByModule :
             Range(dependentEntriesByModule[M]) =
               {E \in Range(allEntries) : M \in StaticReach(E)}

\* Two entries were discovered, the second from the first or deeper in the
\* graph than the first, a dynamic import without included importer made no
\* entry, and a module has two dependent entries.
C17_Witness ==
  /\ pc = "assign"
  /\ Len(allEntries) = Len(entries) + 2
  /\ LET k == Len(entries) + 1
     IN  \/ Finder(k) < Finder(k + 1)
         \/ DiscoveryDepth({allEntries[Finder(k)]}, allEntries[k], 0)
              < DiscoveryDepth({allEntries[Finder(k + 1)]}, allEntries[k + 1], 0)
  /\ \E M \in DOMAIN dependentEntriesByModule :
       Len(dependentEntriesByModule[M]) >= 2

\* A dynamic import whose resolution has no included importer made no entry.
C17_ShakenImportWitness ==
  /\ pc = "assign"
  /\ \E m \in UNION {StaticReach(E) : E \in Range(allEntries)} :
       \E r \in Range(dynamicImports(m)) :
         IsModule(r) /\ r \notin Range(allEntries)

\* ----------------------------------------------------------------- C18
\* The four buckets one after the other.
AllBuckets ==
  chunkPartition.small.sideEffect \o chunkPartition.small.pure
    \o chunkPartition.big.sideEffect \o chunkPartition.big.pure

\* Every live chunk is in one bucket, the one its size and pure flag select,
\* and its fields describe its modules.
PartitionInvariant ==
  /\ \A i, j \in DOMAIN AllBuckets :
       i # j => Range(AllBuckets[i].modules) \cap Range(AllBuckets[j].modules) = {}
  /\ \A key \in PartitionKeys :
       \A c \in Range(chunkPartition[key[1]][key[2]]) :
         /\ (key[1] = "small") <=> (c.size < minChunkSize)
         /\ (key[1] = "big") <=> (c.size >= minChunkSize)
         /\ (key[2] = "pure") <=> c.pure
         /\ c.modules # <<>>
         /\ c.size = SumSizes(c.modules)
         /\ c.pure <=> \A i \in DOMAIN c.modules : ~hasEffects(c.modules[i])
         /\ Len(c.signature) = Len(entries)
         /\ DependentPositions(c.signature) =
              UNION {DependentPositions(PreliminarySignature(c.modules[i])) :
                       i \in DOMAIN c.modules}

\* C18: before and after every step of the merge passes, every live chunk is
\* in exactly one of the four buckets, the one selected by (size <
\* minChunkSize, pure), so that a chunk of exactly minChunkSize is big; its
\* size is the sum of the sizes of its modules, it is pure iff none of its
\* modules has effects, and its signature is the position-wise OR of the
\* preliminary signatures of the chunks merged into it; a merge leaves a chunk
\* whose modules are the target's followed by the source's.
C18_PartitionInvariant ==
  [][(pc = "pass1" \/ pc = "pass2") =>
       /\ PartitionInvariant
       /\ PartitionInvariant'
       /\ merges' = merges + 1 =>
            \E T \in Range(Candidates) :
              /\ SourceChunk.modules \o T.modules \notin
                   {c.modules : c \in Range(AllBuckets')}
              /\ \E c \in Range(AllBuckets') :
                   /\ c.modules = T.modules \o SourceChunk.modules
                   /\ c.size = T.size + SourceChunk.size
                   /\ c.pure = (T.pure /\ SourceChunk.pure)
              /\ Len(AllBuckets) = Len(AllBuckets') + 1
    ]_vars

\* Two merges were made, and one made a chunk of exactly minChunkSize, which
\* is in a big bucket.
C18_Witness ==
  /\ pc = "done"
  /\ merges >= 2
  /\ \A i \in DOMAIN chunkModulesBySignature :
       DependentPositions(chunkModulesBySignature[i].signature) # {}
  /\ \E c \in Range(chunkPartition.big.sideEffect) \cup Range(chunkPartition.big.pure) :
       /\ Len(c.modules) >= 2
       /\ c.size = minChunkSize

\* ----------------------------------------------------------------- C19
PureChunks == Range(chunkPartition.small.pure) \cup Range(chunkPartition.big.pure)

\* C19: after both merge passes at most one small pure chunk is left; if one
\* is left, there is no other pure chunk, and no big side-effect chunk whose
\* signature has 'X' wherever the small chunk's has; and for every small
\* side-effect chunk S that is left no pure chunk has 'X' only where S has.
C19_NoCompatibleTargetLeft ==
  pc = "done" =>
    /\ Len(chunkPartition.small.pure) <= 1
    /\ \A S \in Range(chunkPartition.small.pure) :
         /\ PureChunks = {S}
         /\ \A T \in Range(chunkPartition.big.sideEffect) :
              ~(DependentPositions(S.signature)
                  \subseteq DependentPositions(T.signature))
    /\ \A S \in Range(chunkPartition.small.sideEffect) :
         \A T \in PureChunks :
           ~(DependentPositions(T.signature)
               \subseteq DependentPositions(S.signature))

\* A merge was made, and a small pure chunk is left beside a big side-effect
\* chunk.
C19_Witness ==
  /\ pc = "done"
  /\ merges >= 1
  /\ \A i \in DOMAIN chunkModulesBySignature :
       DependentPositions(chunkModulesBySignature[i].signature) # {}
  /\ Len(chunkPartition.small.pure) = 1
  /\ chunkPartition.big.sideEffect # <<>>

\* ----------------------------------------------------------------- C20
\* The traversal of the assignment for the entry at position i has run.
Assigned(i) == pc \in {"createChunks", "pass1", "pass2", "done"}
                 \/ (pc = "assign" /\ i <= entryIdx)

\* C20: a user entry E outside the manual chunks, also one that a dynamic
\* import or implicitlyLoadedBefore points to, is in the assigned-entry set of
\* every non-external module outside the manual chunks that E reaches over
\* included static dependencies along such modules; the user entries and the
\* dynamic entries are disjoint, and together they are allEntries.
C20_UserEntriesNeverElided ==
  /\ \A i \in DOMAIN entries :
       (Assigned(i) /\ entries[i] \notin modulesInManualChunks) =>
         \A M \in Closure({entries[i]}, AssignEdges) : entries[i] \in AssignedSet(M)
  /\ pc \notin {"manual", "analyze"} =>
       /\ Range(entries) \cap Range(dynamicEntries) = {}
       /\ Range(entries) \cup Range(dynamicEntries) = Range(allEntries)

\* A user entry E that another user entry imports dynamically, through an
\* included import, or loads implicitly, is assigned to a module that the
\* other entry reaches and is assigned to as well; there is a dynamic entry.
C20_Witness ==
  /\ pc = "done"
  /\ dynamicEntries # <<>>
  /\ \E i, j \in DOMAIN entries :
       /\ i # j
       /\ entries[i] \in DiscoverableFrom(entries[j])
       /\ entries[i] \notin modulesInManualChunks
       /\ \E M \in Closure({entries[i]}, AssignEdges) \cap StaticReach(entries[j]) :
            /\ M # entries[i]
            /\ entries[i] \in AssignedSet(M)
            /\ entries[j] \in AssignedSet(M)

====
